---- MODULE Spec2Model ----
(***************************************************************************)
(* A model of HdrHistogramJS's wire-level helpers (ByteBuffer and the      *)
(* ZigZag / LEB128-64b9B varint codec) and of its packed sparse array      *)
(* (PackedArrayContext).                                                   *)
(*                                                                         *)
(* JavaScript numbers are doubles.  The codec works on values up to 2^57,  *)
(* far beyond the integers TLC computes with, so a number is modelled as   *)
(* the sequence of its bits, least significant first, without leading      *)
(* zeros ("Big").  Every arithmetic step the code takes on the values of   *)
(* this model is exact in double arithmetic (the operands and results have *)
(* at most 53 significant bits, see IsDouble), so exact bit arithmetic is  *)
(* what the code computes.                                                 *)
(***************************************************************************)
EXTENDS Integers, Sequences, FiniteSets, TLC

VARIABLES
    buffer,      \* the ByteBuffer: [index, data, int8ArrayForConvert]
    pc,          \* position of the driver of the specification
    input,       \* varint driver: the value handed to encode (a Big)
    output,      \* varint driver: what decode returned
    size0,       \* buffer driver: the size the buffer was created with
    calls,       \* buffer driver: the calls made so far, with what they returned
    before,      \* buffer driver: the buffer as it was before the last call
    arrayContext, \* packed driver: the owner's current PackedArrayContext
    purifying,   \* packed driver: the engine canonicalizes the NaNs it copies
    pending,     \* packed driver: the write being made, and the length signalled
    opsDone,     \* packed driver: the number of writes started
    insertedAt,  \* packed driver: <<set, i>> -> byte index returned at insertion
    written,     \* packed driver: <<set, i>> -> last byte written
    signalled,   \* packed driver: a resize signal has been raised
    retries,     \* packed driver: resizes made for the write in progress
    grown,       \* packed driver: the copies made by the last Grow
    called,      \* calls driver: the last getPackedIndex call, what it returned,
                 \* and the context before it
    leaves,      \* packed driver: <<set, i \div 8>> -> first byte index of the
                 \* leaf, for the leaves created since the last resize
    histogram    \* histogram driver: the Histogram, and the values recorded

varintVars == <<input, output>>
bufferVars == <<size0, calls, before>>
packedVars == <<arrayContext, purifying, pending, opsDone, insertedAt, written,
                signalled, retries, grown, called, leaves>>
histogramVars == <<histogram>>
vars == <<buffer, pc, varintVars, bufferVars, packedVars, histogramVars>>

\* the packed driver's variables in the specifications that do not use them
PackedUnused ==
    /\ arrayContext = <<>>
    /\ purifying = FALSE
    /\ pending = <<>>
    /\ opsDone = 0
    /\ insertedAt = <<>>
    /\ written = <<>>
    /\ signalled = FALSE
    /\ retries = 0
    /\ grown = <<>>
    /\ called = <<>>
    /\ leaves = <<>>

\* the histogram driver's variable in the specifications that do not use it
HistogramUnused == histogram = <<>>

(***************************************************************************)
(* Numbers as bit sequences.                                               *)
(***************************************************************************)
\* the same number without leading zeros
Norm(b) ==
    LET ones == {i \in 1..Len(b) : b[i] = 1}
    IN  IF ones = {} THEN <<>>
        ELSE SubSeq(b, 1, CHOOSE i \in ones : \A j \in ones : j <= i)

RECURSIVE FromNat(_)
FromNat(n) == IF n = 0 THEN <<>> ELSE <<n % 2>> \o FromNat(n \div 2)

RECURSIVE ToNat(_)
ToNat(b) == IF b = <<>> THEN 0 ELSE b[1] + 2 * ToNat(Tail(b))

Bit(b, k) == IF k + 1 <= Len(b) THEN b[k + 1] ELSE 0

Rest(b) == IF b = <<>> THEN <<>> ELSE Tail(b)

RECURSIVE AddCarry(_, _, _)
AddCarry(a, b, c) ==
    IF a = <<>> /\ b = <<>> THEN (IF c = 1 THEN <<1>> ELSE <<>>)
    ELSE LET s == Bit(a, 0) + Bit(b, 0) + c
         IN  <<s % 2>> \o AddCarry(Rest(a), Rest(b), s \div 2)

\* a + b
Add(a, b) == Norm(AddCarry(a, b, 0))

\* a < b
Lt(a, b) ==
    \/ Len(a) < Len(b)
    \/ /\ Len(a) = Len(b)
       /\ \E i \in 1..Len(a) :
            /\ a[i] < b[i]
            /\ \A j \in (i + 1)..Len(a) : a[j] = b[j]

\* 2^k
Pow2(k) == [j \in 1..(k + 1) |-> IF j = k + 1 THEN 1 ELSE 0]

\* a * p, floor(a / p) and a % p for p a power of two (the only multipliers
\* and divisors in the code)
Mul(a, p) == IF a = <<>> THEN <<>> ELSE [j \in 1..(Len(p) - 1) |-> 0] \o a
floorDiv(a, p) == IF Len(a) < Len(p) THEN <<>> ELSE SubSeq(a, Len(p), Len(a))
Mod(a, p) == Norm(SubSeq(a, 1, IF Len(a) < Len(p) - 1 THEN Len(a) ELSE Len(p) - 1))

\* index of the lowest set bit of a non-zero number
RECURSIVE LowBit(_)
LowBit(b) == IF b[1] = 1 THEN 0 ELSE 1 + LowBit(Tail(b))

\* a value a double holds exactly: at most 53 significant bits
IsDouble(b) == b = <<>> \/ Len(b) - LowBit(b) <= 53

(***************************************************************************)
(* ByteBuffer (src/unnamed/part_000, lines 141-212).                       *)
(* data is the Uint8Array: data[k + 1] is the code's data[k].              *)
(***************************************************************************)
\* what a typed array gives for an index outside it
undefined == -1

Zeros(n) == [k \in 1..n |-> 0]

\* the store conversion of a Uint8Array element: the value modulo 2^8
ToUint8(value) == ToNat(Mod(value, Pow2(8)))

\* data[i] = byte; a store outside the array is ignored
StoreByte(data, i, byte) ==
    IF i < Len(data) THEN [data EXCEPT ![i + 1] = byte] ELSE data

\* data[i]
LoadByte(data, i) == IF i < Len(data) THEN data[i + 1] ELSE undefined

\* new ByteBuffer(size)
NewByteBuffer(size) ==
    [index |-> 0, data |-> Zeros(size), int8ArrayForConvert |-> Zeros(4)]

\* new Uint8Array(n) followed by set(oldArray)
\* a growth that forgets data.set(oldArray)
GrownEmpty(data, n) == Zeros(n)

Grown(data, n) == [k \in 1..n |-> IF k <= Len(data) THEN data[k] ELSE 0]

put(b, value) ==
    LET data1 == IF b.index = Len(b.data)
                 THEN Grown(b.data, Len(b.data) * 2)
                 ELSE b.data
    IN  [b EXCEPT !.data = StoreByte(data1, b.index, ToUint8(value)),
                  !.index = b.index + 1]

get(b) ==
    [value |-> LoadByte(b.data, b.index),
     buffer |-> [b EXCEPT !.index = b.index + 1]]

resetIndex(b) == [b EXCEPT !.index = 0]

TWO_POW_32 == Pow2(32)

\* bit k (0 = least significant) of a byte
ByteBit(byte, k) == (byte \div (2 ^ k)) % 2

\* the number a run of bytes holds, least significant byte first
FromBytes(bytes) ==
    Norm([j \in 1..(8 * Len(bytes)) |->
            ByteBit(bytes[((j - 1) \div 8) + 1], (j - 1) % 8)])

\* the four bytes most significant first
Uint32BytesReversed(value) ==
    [k \in 1..4 |->
        ToNat([j \in 1..8 |-> Bit(value, 8 * (4 - k) + (j - 1))])]

\* int32ArrayForConvert[0] = value, seen through int8ArrayForConvert: the four
\* bytes of value modulo 2^32, least significant first (the byte order of
\* the little-endian machines the library runs on)
Uint32Bytes(value) ==
    [k \in 1..4 |->
        ToNat([j \in 1..8 |-> Bit(value, 8 * (k - 1) + (j - 1))])]

\* a sum or product too wide for a double is rounded to 53 significant bits,
\* to nearest, ties to even
RoundToDouble(b) ==
    IF Len(b) <= 53 THEN b
    ELSE LET unit == Pow2(Len(b) - 53)
             kept == floorDiv(b, unit)
             rest == Mod(b, unit)
             half == Pow2(Len(b) - 54)
             up == Lt(half, rest) \/ (rest = half /\ Bit(kept, 0) = 1)
         IN  Mul(IF up THEN Add(kept, <<1>>) ELSE kept, unit)

\* data.set(bytes, offset), for offset + Len(bytes) within the array
SetBytes(data, bytes, offset) ==
    [k \in 1..Len(data) |->
        IF k > offset /\ k <= offset + Len(bytes) THEN bytes[k - offset]
        ELSE data[k]]

\* putInt32: "raised" tells that data.set threw its RangeError (the bytes do
\* not fit at the cursor); the growth and the conversion are done by then
putInt32(b, value) ==
    LET data1 == IF Len(b.data) - b.index < 4
                 THEN Grown(b.data, Len(b.data) * 2 + 4)
                 ELSE b.data
        conv == Uint32Bytes(value)
        fits == b.index + 4 <= Len(data1)
    IN  [buffer |->
            [index |-> IF fits THEN b.index + 4 ELSE b.index,
             data |-> IF fits THEN SetBytes(data1, conv, b.index) ELSE data1,
             int8ArrayForConvert |-> conv],
         raised |-> ~fits]

putInt64(b, value) ==
    LET low == putInt32(b, value)
    IN  IF low.raised THEN low
        ELSE putInt32(low.buffer, floorDiv(value, TWO_POW_32))

\* data.slice(from, to): the part of the range that lies in the array
Slice(data, from, to) ==
    SubSeq(data, from + 1, IF to < Len(data) THEN to ELSE Len(data))

\* getInt32: the slice overwrites the first bytes of int8ArrayForConvert and
\* leaves the others as the last conversion left them
getInt32(b) ==
    LET part == Slice(b.data, b.index, b.index + 4)
        conv == [k \in 1..4 |->
                    IF k <= Len(part) THEN part[k]
                    ELSE b.int8ArrayForConvert[k]]
    IN  [value |-> FromBytes(conv),
         buffer |-> [b EXCEPT !.int8ArrayForConvert = conv,
                              !.index = b.index + 4]]

getInt64(b) ==
    LET low == getInt32(b)
        high == getInt32(low.buffer)
    IN  [value |-> RoundToDouble(Add(Mul(high.value, TWO_POW_32), low.value)),
         buffer |-> high.buffer]

(***************************************************************************)
(* ZigZagEncoding (src/unnamed/part_000, lines 8-139).                     *)
(***************************************************************************)
TWO_POW_7 == Pow2(7)
\* a wrong threshold for the two-byte encodings
TWO_POW_15 == Pow2(15)
TWO_POW_14 == Pow2(14)
TWO_POW_21 == Pow2(21)
TWO_POW_28 == Pow2(28)
TWO_POW_35 == Pow2(35)
TWO_POW_42 == Pow2(42)
TWO_POW_49 == Pow2(49)
TWO_POW_56 == Pow2(56)

\* the literal 0x80 and the literal 2
Hex80 == Pow2(7)
Two == Pow2(1)

encode(b0, v) ==
    LET value == Mul(v, Two) IN
    IF Lt(value, TWO_POW_7) THEN put(b0, value)
    ELSE
    LET b1 == put(b0, Add(Mod(value, Hex80), Hex80)) IN
    IF Lt(value, TWO_POW_14) THEN put(b1, floorDiv(value, TWO_POW_7))
    ELSE
    LET b2 == put(b1, Add(floorDiv(value, TWO_POW_7), Hex80)) IN
    IF Lt(value, TWO_POW_21) THEN put(b2, floorDiv(value, TWO_POW_14))
    ELSE
    LET b3 == put(b2, Add(floorDiv(value, TWO_POW_14), Hex80)) IN
    IF Lt(value, TWO_POW_28) THEN put(b3, floorDiv(value, TWO_POW_21))
    ELSE
    LET b4 == put(b3, Add(floorDiv(value, TWO_POW_21), Hex80)) IN
    IF Lt(value, TWO_POW_35) THEN put(b4, floorDiv(value, TWO_POW_28))
    ELSE
    LET b5 == put(b4, Add(floorDiv(value, TWO_POW_28), Hex80)) IN
    IF Lt(value, TWO_POW_42) THEN put(b5, floorDiv(value, TWO_POW_35))
    ELSE
    LET b6 == put(b5, Add(floorDiv(value, TWO_POW_35), Hex80)) IN
    IF Lt(value, TWO_POW_49) THEN put(b6, floorDiv(value, TWO_POW_42))
    ELSE
    LET b7 == put(b6, Add(floorDiv(value, TWO_POW_42), Hex80)) IN
    IF Lt(value, TWO_POW_56) THEN put(b7, floorDiv(value, TWO_POW_49))
    ELSE
    LET b8 == put(b7, Add(floorDiv(value, TWO_POW_49), Hex80)) IN
    put(b8, floorDiv(value, TWO_POW_56))

\* v & 0x7F, as a number; undefined & 0x7F is 0
And7F(v) == IF v = undefined THEN <<>> ELSE FromNat(v % 128)

\* (v & 0x80) != 0
Continues(v) == v # undefined /\ (v \div 128) % 2 = 1

\* value / 2: the whole part, and whether a half is left over
Halved(value, b) ==
    [value |-> Rest(value), half |-> Bit(value, 0) = 1, buffer |-> b]

decode(b0) ==
    LET g1 == get(b0)
        s1 == And7F(g1.value) IN
    IF ~Continues(g1.value) THEN Halved(s1, g1.buffer) ELSE
    LET g2 == get(g1.buffer)
        s2 == Add(s1, Mul(And7F(g2.value), TWO_POW_7)) IN
    IF ~Continues(g2.value) THEN Halved(s2, g2.buffer) ELSE
    LET g3 == get(g2.buffer)
        s3 == Add(s2, Mul(And7F(g3.value), TWO_POW_14)) IN
    IF ~Continues(g3.value) THEN Halved(s3, g3.buffer) ELSE
    LET g4 == get(g3.buffer)
        s4 == Add(s3, Mul(And7F(g4.value), TWO_POW_21)) IN
    IF ~Continues(g4.value) THEN Halved(s4, g4.buffer) ELSE
    LET g5 == get(g4.buffer)
        s5 == Add(s4, Mul(And7F(g5.value), TWO_POW_28)) IN
    IF ~Continues(g5.value) THEN Halved(s5, g5.buffer) ELSE
    LET g6 == get(g5.buffer)
        s6 == Add(s5, Mul(And7F(g6.value), TWO_POW_35)) IN
    IF ~Continues(g6.value) THEN Halved(s6, g6.buffer) ELSE
    LET g7 == get(g6.buffer)
        s7 == Add(s6, Mul(And7F(g7.value), TWO_POW_42)) IN
    IF ~Continues(g7.value) THEN Halved(s7, g7.buffer) ELSE
    LET g8 == get(g7.buffer)
        s8 == Add(s7, Mul(And7F(g8.value), TWO_POW_49)) IN
    IF ~Continues(g8.value) THEN Halved(s8, g8.buffer) ELSE
    LET g9 == get(g8.buffer)
        s9 == Add(s8, Mul(And7F(g9.value), TWO_POW_56)) IN
    Halved(s9, g9.buffer)

(***************************************************************************)
(* The varint driver: encode one value into a fresh ByteBuffer, rewind,    *)
(* decode.                                                                 *)
(***************************************************************************)
\* bounds of the values tried: head * 2^shift + tail
MaxHead == 3
MaxTail == 2
MaxShift == 56
\* a small initial size, to have put grow the buffer while encoding
SmallSize == 2
\* the constructor's default size
DefaultSize == 16

Values ==
    { v \in { Add(Mul(FromNat(h), Pow2(s)), FromNat(t)) :
                h \in 0..MaxHead, s \in 0..MaxShift, t \in 0..MaxTail } :
        IsDouble(v) }

NoOutput == [value |-> <<>>, half |-> FALSE]

InitVarint ==
    /\ input \in Values
    /\ \E size \in {SmallSize, DefaultSize} :
          /\ buffer = NewByteBuffer(size)
          /\ size0 = size
    /\ pc = "fresh"
    /\ output = NoOutput
    /\ calls = <<>>
    /\ before = buffer
    /\ PackedUnused
    /\ HistogramUnused

Encode ==
    /\ pc = "fresh"
    /\ buffer' = encode(buffer, input)
    /\ pc' = "encoded"
    /\ UNCHANGED <<input, output, bufferVars, packedVars, histogramVars>>

Rewind ==
    /\ pc = "encoded"
    /\ buffer' = resetIndex(buffer)
    /\ pc' = "rewound"
    /\ UNCHANGED <<input, output, bufferVars, packedVars, histogramVars>>

Decode ==
    /\ pc = "rewound"
    /\ LET r == decode(buffer)
       IN  /\ buffer' = r.buffer
           /\ output' = [value |-> r.value, half |-> r.half]
    /\ pc' = "decoded"
    /\ UNCHANGED <<input, bufferVars, packedVars, histogramVars>>

NextVarint == Encode \/ Rewind \/ Decode

SpecVarint == InitVarint /\ [][NextVarint]_vars

(***************************************************************************)
(* Claims about the varint codec.                                          *)
(***************************************************************************)
\* the bytes the buffer holds below its cursor
Written == SubSeq(buffer.data, 1, buffer.index)

\* the 7-bit group k (0 = least significant) of a number
Group(b, k) == ToNat(Mod(floorDiv(b, Pow2(7 * k)), Pow2(7)))

\* the documented length table: the smallest k in 1..8 with 2v < 2^(7k), else 9
TableLength(v) ==
    LET bits == Len(Mul(v, Two))
    IN  IF \E k \in 1..8 : bits <= 7 * k
        THEN CHOOSE k \in 1..8 : bits <= 7 * k /\ \A j \in 1..(k - 1) : bits > 7 * j
        ELSE 9

\* C1: for every v in [0, 2^56), encode on a fresh buffer, resetIndex and
\* decode return exactly v.
C1_RoundTrip ==
    (pc = "decoded" /\ Lt(input, TWO_POW_56))
        => (output.value = input /\ ~output.half)

\* C6: every byte encode stores except the last has bit 0x80 set and carries
\* the matching 7-bit group of 2v, least significant group first; the last
\* byte stored has no continuation tag.
C6_ContinuationLayout ==
    pc = "encoded" =>
        LET n == buffer.index
            value == Mul(input, Two)
        IN  /\ \A k \in 1..(n - 1) :
                 /\ Written[k] >= 128
                 /\ Written[k] % 128 = Group(value, k - 1)
            /\ Written[n] < 128

\* C7: encode advances the cursor of the fresh buffer by exactly the table's
\* length for v, and never by more than 9.
C7_EncodedLength ==
    pc = "encoded" => (buffer.index = TableLength(input) /\ buffer.index <= 9)

C7_Witness ==
    /\ pc = "encoded"
    /\ buffer.index = 9
    /\ ~Lt(Mul(input, Two), TWO_POW_56)

(***************************************************************************)
(* The buffer driver: any sequence of calls on one ByteBuffer.             *)
(***************************************************************************)
\* the largest initial size tried, and the longest sequence of calls
MaxSize == 2
MaxCalls == 4

\* arguments tried: a byte, a value above a byte, a 32-bit and a 53-bit word
PutValues == {FromNat(1), FromNat(384)}
Int32Values ==
    {FromNat(16909060), Add(Mul(FromNat(129), Pow2(24)), FromNat(131844))}
Int64Values ==
    {Add(Mul(FromNat(7), TWO_POW_32), FromNat(16909060)),
     Add(Mul(FromNat(2097151), TWO_POW_32),
         Add(Mul(FromNat(129), Pow2(24)), FromNat(131844)))}

NoValue == [defined |-> FALSE, value |-> <<>>]
Number(value) == [defined |-> TRUE, value |-> value]
\* what get returns: a byte of the array, or undefined
Element(byte) == IF byte = undefined THEN NoValue ELSE Number(FromNat(byte))

Called(op, arg, returned, raised, after) ==
    /\ pc = "ready"
    /\ Len(calls) < MaxCalls
    /\ calls' = Append(calls, [op |-> op, arg |-> arg,
                               returned |-> returned, raised |-> raised])
    /\ before' = buffer
    /\ buffer' = after
    /\ UNCHANGED <<pc, size0, varintVars, packedVars, histogramVars>>

InitBuffer ==
    /\ size0 \in 0..MaxSize
    /\ buffer = NewByteBuffer(size0)
    /\ pc = "ready"
    /\ calls = <<>>
    /\ before = buffer
    /\ input = <<>>
    /\ output = NoOutput
    /\ PackedUnused
    /\ HistogramUnused

Put ==
    \E v \in PutValues :
        Called("put", v, NoValue, FALSE, put(buffer, v))

PutInt32 ==
    \E v \in Int32Values :
        LET r == putInt32(buffer, v)
        IN  Called("putInt32", v, NoValue, r.raised, r.buffer)

PutInt64 ==
    \E v \in Int64Values :
        LET r == putInt64(buffer, v)
        IN  Called("putInt64", v, NoValue, r.raised, r.buffer)

Get ==
    LET r == get(buffer)
    IN  Called("get", <<>>, Element(r.value), FALSE, r.buffer)

GetInt32 ==
    LET r == getInt32(buffer)
    IN  Called("getInt32", <<>>, Number(r.value), FALSE, r.buffer)

GetInt64 ==
    LET r == getInt64(buffer)
    IN  Called("getInt64", <<>>, Number(r.value), FALSE, r.buffer)

ResetIndex ==
    Called("resetIndex", <<>>, NoValue, FALSE, resetIndex(buffer))

NextBuffer ==
    Put \/ PutInt32 \/ PutInt64 \/ Get \/ GetInt32 \/ GetInt64 \/ ResetIndex

SpecBuffer == InitBuffer /\ [][NextBuffer]_vars

(***************************************************************************)
(* Claims about the ByteBuffer.                                            *)
(***************************************************************************)
Ops(from, to) == {calls[k].op : k \in from..to}

\* s * 2^j for some j: reached from s by doubling only
RECURSIVE Doubled(_, _)
Doubled(s, c) == c = s \/ (c > s /\ c % 2 = 0 /\ Doubled(s, c \div 2))

\* C8: after n put calls (and nothing else) on a buffer created with size
\* s >= 1, the cursor is n, data[k] is b_k mod 256 for every k < n, and the
\* capacity is s doubled as often as the buffer was found full: it came from s
\* by doubling only, and it was doubled last when half of it was full.
C8_Append ==
    (size0 >= 1 /\ Ops(1, Len(calls)) \subseteq {"put"}) =>
        LET n == Len(calls)
            capacity == Len(buffer.data)
        IN  /\ buffer.index = n
            /\ \A k \in 1..n : buffer.data[k] = ToNat(calls[k].arg) % 256
            /\ Doubled(size0, capacity)
            /\ capacity >= n
            /\ capacity > size0 => capacity \div 2 < n

C8_Witness ==
    /\ size0 = 1
    /\ Ops(1, Len(calls)) = {"put"}
    /\ Len(calls) = 3
    /\ Len(buffer.data) = 4
    /\ buffer.data[3] = 128

\* C9: no call raises an error, and every read returns a number.
C9_NeverFails ==
    \A k \in 1..Len(calls) :
        /\ ~calls[k].raised
        /\ calls[k].op \in {"get", "getInt32", "getInt64"}
                => calls[k].returned.defined

\* C10: resetIndex sets the cursor to 0 and leaves the bytes and the capacity
\* alone; after n puts and a resetIndex, the k-th get (k <= n) returns the
\* k-th byte put and leaves the cursor at k.
C10_Rewind ==
    /\ (calls # <<>> /\ calls[Len(calls)].op = "resetIndex")
            => (buffer.index = 0 /\ buffer.data = before.data)
    /\ \A n \in 1..Len(calls) :
          ( /\ Ops(1, n - 1) \subseteq {"put"}
            /\ calls[n].op = "resetIndex"
            /\ Ops(n + 1, Len(calls)) \subseteq {"get"}
            /\ Len(calls) - n \in 1..(n - 1) )
          => LET k == Len(calls) - n
             IN  /\ calls[Len(calls)].returned
                        = Number(FromNat(ToNat(calls[k].arg) % 256))
                 /\ buffer.index = k

\* byte k (0 = least significant) of a number
ByteOf(v, k) == ToNat([j \in 1..8 |-> Bit(v, 8 * k + (j - 1))])

\* C11: a putInt64(v) with v < 2^53 (a putInt32(v) with v < 2^32) made with
\* the cursor not past the capacity does not raise, advances the cursor by 8
\* (by 4), leaves the bytes of v at the position of the write, least
\* significant first, and getInt64 (getInt32) with the cursor back at that
\* position returns v; so does the getInt64 (getInt32) called after a
\* write at position 0 and a resetIndex.
C11_WordRoundTrip ==
    LET n == Len(calls)
        wide(op) == op \in {"putInt64", "getInt64"}
        inRange(op, v) == Lt(v, IF wide(op) THEN Pow2(53) ELSE TWO_POW_32)
    IN  /\ ( /\ n >= 1
             /\ calls[n].op \in {"putInt32", "putInt64"}
             /\ inRange(calls[n].op, calls[n].arg)
             /\ before.index <= Len(before.data) )
           => LET v == calls[n].arg
                  width == IF wide(calls[n].op) THEN 8 ELSE 4
                  rewound == [buffer EXCEPT !.index = before.index]
              IN  /\ ~calls[n].raised
                  /\ buffer.index = before.index + width
                  /\ \A k \in 0..(width - 1) :
                        LoadByte(buffer.data, before.index + k) = ByteOf(v, k)
                  /\ v = IF wide(calls[n].op) THEN getInt64(rewound).value
                         ELSE getInt32(rewound).value
        /\ ( /\ n = 3
             /\ calls[1].op \in {"putInt32", "putInt64"}
             /\ inRange(calls[1].op, calls[1].arg)
             /\ calls[2].op = "resetIndex"
             /\ calls[3].op = IF wide(calls[1].op) THEN "getInt64" ELSE "getInt32" )
           => calls[3].returned = Number(calls[1].arg)

C11_Witness ==
    /\ Len(calls) = 3
    /\ calls[1].op = "putInt64"
    /\ ~Lt(calls[1].arg, Pow2(52))
    /\ calls[2].op = "resetIndex"
    /\ calls[3].op = "getInt64"
    /\ calls[3].returned = Number(calls[1].arg)

(***************************************************************************)
(* PackedArrayContext (src/src/packedarray/PackedArrayContext.ts).         *)
(*                                                                         *)
(* A context is [physicalLength, isPacked, populatedShortLength,           *)
(* virtualLength, topLevelShift, shortArray].  shortArray is the backing   *)
(* store seen as 16-bit words (shortArray[k + 1] is the code's             *)
(* shortArray[k]); byteArray and longArray are views of the same store:    *)
(* byte b is a half of short b / 2 (the low half when b is even), long l   *)
(* is the shorts 4l .. 4l + 3.                                             *)
(*                                                                         *)
(* A call returns [ctx, status, value]: status "ok" with the returned      *)
(* value, "resize" when a ResizeError left the call (value is the length   *)
(* it carries), "error" when an Error did; ctx is the context as the call  *)
(* left it.                                                                *)
(***************************************************************************)
MINIMUM_INITIAL_PACKED_ARRAY_CAPACITY == 16
MAX_SUPPORTED_PACKED_COUNTS_ARRAY_LENGTH == 1073741824
SET_0_START_INDEX == 0
NUMBER_OF_SETS == 8
LEAF_LEVEL_SHIFT == 3
NON_LEAF_ENTRY_SLOT_INDICATORS_OFFSET == 0
NON_LEAF_ENTRY_HEADER_SIZE_IN_SHORTS == 2
PACKED_ARRAY_GROWTH_INCREMENT == 16
PACKED_ARRAY_GROWTH_FRACTION_POW2 == 4

Ok(c, value) == [ctx |-> c, status |-> "ok", value |-> value]
ResizeError(c, newSize) == [ctx |-> c, status |-> "resize", value |-> newSize]
Error(c) == [ctx |-> c, status |-> "error", value |-> 0]

Max(a, b) == IF a >= b THEN a ELSE b

\* bitCount: the number of bits set (the arguments are bitmaps below 2^16)
RECURSIVE bitCount(_)
bitCount(n) == IF n = 0 THEN 0 ELSE (n % 2) + bitCount(n \div 2)

\* index + k in JavaScript arithmetic: undefined + k is NaN, which indexes
\* nothing
Offset(index, k) == IF index = undefined THEN undefined ELSE index + k

\* an index of the short array, which holds 4 shorts for each long
InShorts(c, i) == i >= 0 /\ i < 4 * c.physicalLength

length(c) == c.physicalLength

getPopulatedShortLength(c) == c.populatedShortLength

\* the populated length in whole longs, the last one left out when it is
\* not full
getPopulatedLongLengthRoundedDown(c) == getPopulatedShortLength(c) \div 4

getPopulatedLongLength(c) == (getPopulatedShortLength(c) + 3) \div 4

setPopulatedLongLength(c, newPopulatedLongLength) ==
    [c EXCEPT !.populatedShortLength = newPopulatedLongLength * 4]

\* shortArray[shortIndex] = value: stored modulo 2^16, ignored outside the array
setAtShortIndex(c, shortIndex, value) ==
    IF InShorts(c, shortIndex)
    THEN [c EXCEPT !.shortArray[shortIndex + 1] = value % 65536]
    ELSE c

getAtShortIndex(c, shortIndex) ==
    IF InShorts(c, shortIndex) THEN c.shortArray[shortIndex + 1] ELSE undefined

getIndexAtShortIndex(c, shortIndex) == getAtShortIndex(c, shortIndex)

\* x & 0xffff, where undefined & 0xffff is 0
And16(x) == IF x = undefined THEN 0 ELSE x % 65536

setPackedSlotIndicators(c, entryIndex, newPackedSlotIndicators) ==
    setAtShortIndex(c, Offset(entryIndex, NON_LEAF_ENTRY_SLOT_INDICATORS_OFFSET),
                    newPackedSlotIndicators)

getPackedSlotIndicators(c, entryIndex) ==
    And16(getAtShortIndex(c,
            Offset(entryIndex, NON_LEAF_ENTRY_SLOT_INDICATORS_OFFSET)))

getIndexAtEntrySlot(c, entryIndex, slot) ==
    getAtShortIndex(c,
        Offset(entryIndex, NON_LEAF_ENTRY_HEADER_SIZE_IN_SHORTS + slot))

setIndexAtEntrySlot(c, entryIndex, slot, newIndexValue) ==
    setAtShortIndex(c,
        Offset(entryIndex, NON_LEAF_ENTRY_HEADER_SIZE_IN_SHORTS + slot),
        newIndexValue)

\* byteArray[byteIndex] = value; ignored outside the array (and at -1)
setAtByteIndex(c, byteIndex, value) ==
    LET k == byteIndex \div 2
    IN  IF byteIndex >= 0 /\ InShorts(c, k)
        THEN LET old == c.shortArray[k + 1]
                 new == IF byteIndex % 2 = 0
                        THEN (old \div 256) * 256 + (value % 256)
                        ELSE (value % 256) * 256 + (old % 256)
             IN  [c EXCEPT !.shortArray[k + 1] = new]
        ELSE c

getAtByteIndex(c, byteIndex) ==
    LET k == byteIndex \div 2
    IN  IF byteIndex >= 0 /\ InShorts(c, k)
        THEN IF byteIndex % 2 = 0
             THEN c.shortArray[k + 1] % 256
             ELSE c.shortArray[k + 1] \div 256
        ELSE undefined

\* longArray[longIndex] = a double whose 16-bit words are long; ignored
\* outside the array
storeLong(c, longIndex, long) ==
    IF longIndex >= 0 /\ longIndex < c.physicalLength
    THEN [c EXCEPT !.shortArray =
            [@ EXCEPT ![4 * longIndex + 1] = long[1],
                      ![4 * longIndex + 2] = long[2],
                      ![4 * longIndex + 3] = long[3],
                      ![4 * longIndex + 4] = long[4]]]
    ELSE c

\* longArray[longIndex] = 0: the eight bytes of +0.0
setAtLongIndex(c, longIndex) == storeLong(c, longIndex, <<0, 0, 0, 0>>)

\* the comparison the other way round: a signal whenever there is room
expandArrayIfNeededInverted(c, entryLengthInLongs) ==
    IF length(c) >= getPopulatedLongLength(c) + entryLengthInLongs
    THEN ResizeError(c, length(c) + PACKED_ARRAY_GROWTH_INCREMENT)
    ELSE Ok(c, 0)

\* the growth by the fixed increment alone
expandArrayIfNeededFixedIncrement(c, entryLengthInLongs) ==
    IF length(c) < getPopulatedLongLength(c) + entryLengthInLongs
    THEN ResizeError(c, length(c) + PACKED_ARRAY_GROWTH_INCREMENT)
    ELSE Ok(c, 0)

\* the ResizeError of expandArrayIfNeeded, if it throws one
expandArrayIfNeeded(c, entryLengthInLongs) ==
    LET currentLength == length(c)
        growthIncrement ==
            Max(Max(entryLengthInLongs, PACKED_ARRAY_GROWTH_INCREMENT),
                getPopulatedLongLength(c) \div (2 ^ PACKED_ARRAY_GROWTH_FRACTION_POW2))
    IN  IF currentLength < getPopulatedLongLength(c) + entryLengthInLongs
        THEN ResizeError(c, currentLength + growthIncrement)
        ELSE Ok(c, 0)

\* the loop of newEntry: the poison value -1 in n shorts from shortIndex on
RECURSIVE Poisoned(_, _, _)
Poisoned(c, shortIndex, n) ==
    IF n = 0 THEN c
    ELSE Poisoned(setAtShortIndex(c, shortIndex, -1), shortIndex + 1, n - 1)

\* (allocated records the length each entry was allocated with, for the
\* claims about it; the program keeps no such table)
newEntry(c, entryLengthInShorts) ==
    LET newEntryIndex == c.populatedShortLength
        room == expandArrayIfNeeded(c, (entryLengthInShorts \div 4) + 1)
    IN  IF room.status # "ok" THEN room
        ELSE Ok(Poisoned([c EXCEPT !.populatedShortLength =
                                      newEntryIndex + entryLengthInShorts,
                                   !.allocated =
                                      (newEntryIndex :> entryLengthInShorts) @@ @],
                         newEntryIndex, entryLengthInShorts),
                newEntryIndex)

\* (leafAllocated records the long index of each leaf allocated, as allocated
\* does for the entries)
newLeafEntry(c) ==
    LET newEntryIndex == getPopulatedLongLength(c)
        room == expandArrayIfNeeded(c, 1)
    IN  IF room.status # "ok" THEN room
        ELSE Ok(setAtLongIndex(
                    [setPopulatedLongLength(c, newEntryIndex + 1)
                        EXCEPT !.leafAllocated = @ \cup {newEntryIndex}],
                    newEntryIndex),
                newEntryIndex)

\* x | mask for a one-bit mask
BitOr(x, mask) == IF (x \div mask) % 2 = 1 THEN x ELSE x + mask

\* expandEntry repointing the slot before it allocates the expanded entry
expandEntryRepointingFirst(c, existingEntryIndex, entryPointerIndex, insertedSlotIndex, insertedSlotMask, nextLevelIsLeaf) ==
    LET packedSlotIndicators ==
            BitOr(And16(getAtShortIndex(c, existingEntryIndex)), insertedSlotMask)
        numberOfslotsInExpandedEntry == bitCount(packedSlotIndicators)
        expandedEntryLength ==
            numberOfslotsInExpandedEntry + NON_LEAF_ENTRY_HEADER_SIZE_IN_SHORTS
        nextLevel ==
            IF nextLevelIsLeaf THEN newLeafEntry(c)
            ELSE LET e == newEntry(c, NON_LEAF_ENTRY_HEADER_SIZE_IN_SHORTS)
                 IN  IF e.status # "ok" THEN e
                     ELSE Ok(setPackedSlotIndicators(e.ctx, e.value, 0), e.value)
    IN  IF insertedSlotIndex >= numberOfslotsInExpandedEntry THEN Error(c)
        ELSE IF nextLevel.status # "ok" THEN nextLevel
        ELSE LET repointed == setAtShortIndex(nextLevel.ctx, entryPointerIndex,
                                  nextLevel.ctx.populatedShortLength)
                 expanded == newEntry(repointed, expandedEntryLength)
             IN  IF expanded.status # "ok" THEN expanded
                 ELSE LET c1 == setPackedSlotIndicators(expanded.ctx,
                                    expanded.value, packedSlotIndicators)
                          c2 == setIndexAtEntrySlot(c1, expanded.value,
                                    insertedSlotIndex, nextLevel.value)
                      IN  Ok(c2, expanded.value)

expandEntry(c, existingEntryIndex, entryPointerIndex, insertedSlotIndex, insertedSlotMask, nextLevelIsLeaf) ==
    LET packedSlotIndicators ==
            BitOr(And16(getAtShortIndex(c, existingEntryIndex)), insertedSlotMask)
        numberOfslotsInExpandedEntry == bitCount(packedSlotIndicators)
        expandedEntryLength ==
            numberOfslotsInExpandedEntry + NON_LEAF_ENTRY_HEADER_SIZE_IN_SHORTS
        nextLevel ==
            IF nextLevelIsLeaf THEN newLeafEntry(c)
            ELSE LET e == newEntry(c, NON_LEAF_ENTRY_HEADER_SIZE_IN_SHORTS)
                 IN  IF e.status # "ok" THEN e
                     ELSE Ok(setPackedSlotIndicators(e.ctx, e.value, 0), e.value)
    IN  IF insertedSlotIndex >= numberOfslotsInExpandedEntry THEN Error(c)
        ELSE IF nextLevel.status # "ok" THEN nextLevel
        ELSE LET expanded == newEntry(nextLevel.ctx, expandedEntryLength)
             IN  IF expanded.status # "ok" THEN expanded
                 ELSE LET c1 == setPackedSlotIndicators(expanded.ctx,
                                    expanded.value, packedSlotIndicators)
                          c2 == setIndexAtEntrySlot(c1, expanded.value,
                                    insertedSlotIndex, nextLevel.value)
                          c3 == setAtShortIndex(c2, entryPointerIndex,
                                    expanded.value)
                      IN  Ok(c3, expanded.value)

getRootEntry(c, setNumber, insertAsNeeded) ==
    LET entryPointerIndex == SET_0_START_INDEX + setNumber
        entryIndex == getIndexAtShortIndex(c, entryPointerIndex)
    IN  IF entryIndex # 0 THEN Ok(c, entryIndex)
        ELSE IF ~insertAsNeeded THEN Ok(c, 0)
        ELSE LET e == newEntry(c, NON_LEAF_ENTRY_HEADER_SIZE_IN_SHORTS)
             IN  IF e.status # "ok" THEN e
                 ELSE Ok(setAtShortIndex(
                            setPackedSlotIndicators(e.ctx, e.value, 0),
                            entryPointerIndex, e.value),
                         e.value)

\* the loop of getPackedIndex from level indexShift down, and its result
RECURSIVE WorkDown(_, _, _, _, _, _)
WorkDown(c, virtualIndex, insertAsNeeded, indexShift, entryPointerIndex, entryIndex) ==
    IF indexShift < LEAF_LEVEL_SHIFT
    THEN Ok(c, (IF entryIndex = undefined THEN 0 ELSE entryIndex * 8)
               + (virtualIndex % 8))
    ELSE
    LET nextLevelIsLeaf == indexShift = LEAF_LEVEL_SHIFT
        packedSlotIndicators == getPackedSlotIndicators(c, entryIndex)
        slotBitNumber == (virtualIndex \div (2 ^ indexShift)) % 16
        slotMask == 2 ^ slotBitNumber
        slotsBelowBitNumber == packedSlotIndicators % slotMask
        slotNumber == bitCount(slotsBelowBitNumber)
        present == (packedSlotIndicators \div slotMask) % 2 = 1
        here == IF present THEN Ok(c, entryIndex)
                ELSE expandEntry(c, entryIndex, entryPointerIndex, slotNumber,
                                 slotMask, nextLevelIsLeaf)
    IN  IF ~present /\ ~insertAsNeeded THEN Ok(c, -1)
        ELSE IF here.status # "ok" THEN here
        ELSE LET pointer == Offset(here.value,
                               NON_LEAF_ENTRY_HEADER_SIZE_IN_SHORTS + slotNumber)
                 next == getIndexAtShortIndex(here.ctx, pointer)
             IN  IF next = 0 THEN Error(here.ctx)
                 ELSE WorkDown(here.ctx, virtualIndex, insertAsNeeded,
                               indexShift - 4, pointer, next)

\* getPackedIndex without the comparison with virtualLength
getPackedIndexUnchecked(c, setNumber, virtualIndex, insertAsNeeded) ==
    LET root == getRootEntry(c, setNumber, insertAsNeeded)
    IN  IF root.status # "ok" THEN root
        ELSE IF root.value = 0 THEN Ok(root.ctx, -1)
        ELSE WorkDown(root.ctx, virtualIndex, insertAsNeeded,
                      c.topLevelShift, SET_0_START_INDEX + setNumber,
                      root.value)

getPackedIndex(c, setNumber, virtualIndex, insertAsNeeded) ==
    IF virtualIndex >= c.virtualLength THEN Error(c)
    ELSE LET root == getRootEntry(c, setNumber, insertAsNeeded)
         IN  IF root.status # "ok" THEN root
             ELSE IF root.value = 0 THEN Ok(root.ctx, -1)
             ELSE WorkDown(root.ctx, virtualIndex, insertAsNeeded,
                           c.topLevelShift, SET_0_START_INDEX + setNumber,
                           root.value)

\* ceil(log2(n)) for n >= 1
RECURSIVE CeilLog2(_)
CeilLog2(n) == IF n <= 1 THEN 0 ELSE 1 + CeilLog2((n + 1) \div 2)

\* ceil(m / 4) * 4 for an integer m
CeilToFour(m) == m + ((0 - m) % 4)

\* the magnitude in eights rounded down to a multiple of four, not up
determineTopLevelShiftRoundingDown(virtualLength) ==
    LET sizeMagnitude == CeilLog2(virtualLength)
        eightsSizeMagnitude == sizeMagnitude - 3
        multipleOfFourSizeMagnitude ==
            Max(eightsSizeMagnitude - (eightsSizeMagnitude % 4), 8)
    IN  multipleOfFourSizeMagnitude - 4 + 3

determineTopLevelShiftForVirtualLength(virtualLength) ==
    LET sizeMagnitude == CeilLog2(virtualLength)
        eightsSizeMagnitude == sizeMagnitude - 3
        multipleOfFourSizeMagnitude == Max(CeilToFour(eightsSizeMagnitude), 8)
    IN  multipleOfFourSizeMagnitude - 4 + 3

setVirtualLength(c, virtualLength) ==
    [c EXCEPT !.topLevelShift = determineTopLevelShiftForVirtualLength(virtualLength),
              !.virtualLength = virtualLength]

\* new PackedArrayContext(virtualLength, initialPhysicalLength), for the
\* physical lengths below the packing ceiling
NewPackedArrayContext(virtualLength, initialPhysicalLength) ==
    LET physicalLength ==
            Max(initialPhysicalLength, MINIMUM_INITIAL_PACKED_ARRAY_CAPACITY)
    IN  setVirtualLength(
            [physicalLength |-> physicalLength,
             isPacked |-> physicalLength <= MAX_SUPPORTED_PACKED_COUNTS_ARRAY_LENGTH,
             populatedShortLength |-> SET_0_START_INDEX + 8,
             virtualLength |-> 0,
             topLevelShift |-> 0,
             shortArray |-> [k \in 1..(4 * physicalLength) |-> 0],
             allocated |-> <<>>,
             leafAllocated |-> {}],
            virtualLength)

\* The four shorts of a Float64Array element hold a NaN: exponent all ones
\* and a mantissa that is not zero
IsNaN(long) ==
    /\ (long[4] \div 16) % 2048 = 2047
    /\ (long[4] % 16 # 0 \/ long[1] # 0 \/ long[2] # 0 \/ long[3] # 0)

\* the NaN an engine writes when it does not keep a payload
CanonicalNaN == <<0, 0, 0, 32760>>

\* a leaf copied with its 16-bit words in the opposite order
loadLongReversed(other, longIndex, purifies) ==
    IF longIndex >= 0 /\ longIndex < other.physicalLength
    THEN [k \in 1..4 |-> other.shortArray[4 * longIndex + 5 - k]]
    ELSE CanonicalNaN

\* other.longArray[longIndex] as this.longArray[...] = ... stores it: a read
\* outside the array is undefined and is stored as NaN; a NaN read inside the
\* array keeps its bits or is replaced by the canonical NaN, as the engine
\* (purifies) decides
loadLong(other, longIndex, purifies) ==
    IF longIndex >= 0 /\ longIndex < other.physicalLength
    THEN LET long == [k \in 1..4 |-> other.shortArray[4 * longIndex + k]]
         IN  IF IsNaN(long) /\ purifies THEN CanonicalNaN ELSE long
    ELSE CanonicalNaN

RECURSIVE copyEntriesAtLevelFromOther(_, _, _, _, _, _)
RECURSIVE copySlots(_, _, _, _, _, _, _, _)
\* the loop over the slots of copyEntriesAtLevelFromOther, from slot i on
copySlots(c, other, otherLevelEntryIndex, entryIndex, otherIndexShift, i, numberOfSlots, purifies) ==
    IF ~(i < numberOfSlots) THEN Ok(c, 0)
    ELSE IF otherIndexShift = LEAF_LEVEL_SHIFT
    THEN LET leaf == newLeafEntry(c)
         IN  IF leaf.status # "ok" THEN leaf
             ELSE LET c1 == setIndexAtEntrySlot(leaf.ctx, entryIndex, i,
                                                leaf.value)
                      otherNextLevelEntryIndex ==
                          getIndexAtEntrySlot(other, otherLevelEntryIndex, i)
                      c2 == storeLong(c1, leaf.value,
                               loadLong(other, otherNextLevelEntryIndex, purifies))
                  IN  copySlots(c2, other, otherLevelEntryIndex, entryIndex,
                                otherIndexShift, i + 1, numberOfSlots, purifies)
    ELSE LET otherNextLevelEntryIndex ==
                 getIndexAtEntrySlot(other, otherLevelEntryIndex, i)
             below == copyEntriesAtLevelFromOther(c, other,
                          otherNextLevelEntryIndex,
                          entryIndex + NON_LEAF_ENTRY_HEADER_SIZE_IN_SHORTS + i,
                          otherIndexShift - 4, purifies)
         IN  IF below.status # "ok" THEN below
             ELSE copySlots(below.ctx, other, otherLevelEntryIndex, entryIndex,
                            otherIndexShift, i + 1, numberOfSlots, purifies)

copyEntriesAtLevelFromOther(c, other, otherLevelEntryIndex, levelEntryIndexPointer, otherIndexShift, purifies) ==
    LET packedSlotIndicators == getPackedSlotIndicators(other, otherLevelEntryIndex)
        numberOfSlots == bitCount(packedSlotIndicators)
        sizeOfEntry == NON_LEAF_ENTRY_HEADER_SIZE_IN_SHORTS + numberOfSlots
        entry == newEntry(c, sizeOfEntry)
    IN  IF entry.status # "ok" THEN entry
        ELSE LET c1 == setAtShortIndex(entry.ctx, levelEntryIndexPointer,
                                       entry.value)
                 c2 == setAtShortIndex(c1,
                          entry.value + NON_LEAF_ENTRY_SLOT_INDICATORS_OFFSET,
                          packedSlotIndicators)
             IN  copySlots(c2, other, otherLevelEntryIndex, entry.value,
                           otherIndexShift, 0, numberOfSlots, purifies)

\* the inner loop of populateEquivalentEntriesWithZerosFromOther: one entry
\* per level this context has above the other's top level.  It runs on the
\* outer loop's variable i and returns it as the loop leaves it.
RECURSIVE insertLevels(_, _, _, _)
insertLevels(c, other, entryIndexPointer, i) ==
    IF ~(i > other.topLevelShift)
    THEN [ctx |-> c, status |-> "ok", value |-> entryIndexPointer, i |-> i]
    ELSE LET sizeOfEntry == NON_LEAF_ENTRY_HEADER_SIZE_IN_SHORTS + 1
             entry == newEntry(c, sizeOfEntry)
         IN  IF entry.status # "ok"
             THEN [ctx |-> entry.ctx, status |-> entry.status,
                   value |-> entry.value, i |-> i]
             ELSE insertLevels(
                     setPackedSlotIndicators(
                         setAtShortIndex(entry.ctx, entryIndexPointer, entry.value),
                         entry.value, 1),
                     other,
                     entry.value + NON_LEAF_ENTRY_HEADER_SIZE_IN_SHORTS,
                     i - 4)

\* the outer loop of populateEquivalentEntriesWithZerosFromOther from i on
RECURSIVE populateSets(_, _, _, _)
populateSets(c, other, i, purifies) ==
    IF ~(i < NUMBER_OF_SETS) THEN Ok(c, 0)
    ELSE LET otherEntryIndex == getAtShortIndex(other, SET_0_START_INDEX + i)
         IN  IF otherEntryIndex = 0
             THEN populateSets(c, other, i + 1, purifies)
             ELSE LET levels == insertLevels(c, other, SET_0_START_INDEX + i,
                                             c.topLevelShift)
                  IN  IF levels.status # "ok"
                      THEN [ctx |-> levels.ctx, status |-> levels.status,
                            value |-> levels.value]
                      ELSE LET copied == copyEntriesAtLevelFromOther(levels.ctx,
                                            other, otherEntryIndex, levels.value,
                                            other.topLevelShift, purifies)
                           IN  IF copied.status # "ok" THEN copied
                               ELSE populateSets(copied.ctx, other, levels.i + 1,
                                                 purifies)

populateEquivalentEntriesWithZerosFromOther(c, other, purifies) ==
    IF c.virtualLength < other.virtualLength THEN Error(c)
    ELSE populateSets(c, other, 0, purifies)

copyAndIncreaseSize(c, newPhysicalArrayLength, purifies) ==
    LET ctx == NewPackedArrayContext(c.virtualLength, newPhysicalArrayLength)
    IN  IF c.isPacked
        THEN LET populated ==
                     populateEquivalentEntriesWithZerosFromOther(ctx, c, purifies)
             IN  IF populated.status # "ok" THEN populated
                 ELSE Ok(populated.ctx, 0)
        ELSE Ok(ctx, 0)

(***************************************************************************)
(* The packed driver: an owner of one context writing bytes the way the    *)
(* context's contract has it: getPackedIndex(set, i, true), then           *)
(* setAtByteIndex at the index returned; on a resize signal,               *)
(* copyAndIncreaseSize(the signalled length), and the call again on the    *)
(* copy.  From any state between writes the owner may also grow the        *)
(* context on its own (Grow), which ends the run.                          *)
(***************************************************************************)
\* the longest sequence of writes, and the most resizes followed for one write
MaxOps == 4
MaxRetries == 3

\* virtual lengths tried: two levels of entries above the leaves, and three
VirtualLengths == {256, 4096}

\* writes tried, [set, i, byte]: two bytes of one leaf that make the leaf a
\* NaN, another leaf of the same entry, another entry of the same set,
\* another set, and an overwrite
Writes ==
    { [set |-> 0, i |-> 6, byte |-> 241], [set |-> 0, i |-> 7, byte |-> 127],
      [set |-> 0, i |-> 14, byte |-> 1], [set |-> 0, i |-> 134, byte |-> 2],
      [set |-> 1, i |-> 6, byte |-> 3], [set |-> 0, i |-> 6, byte |-> 5] }

\* lengths a Grow asks for, beyond the current one
Growths == {0, PACKED_ARRAY_GROWTH_INCREMENT}

\* the indices the contents of two contexts are compared at
ProbeIndices == (0..15) \cup (128..143)

NoWrite == [set |-> 0, i |-> 0, byte |-> 0, newSize |-> 0]

InitPacked ==
    /\ \E virtualLength \in VirtualLengths :
          arrayContext = NewPackedArrayContext(virtualLength,
                                      MINIMUM_INITIAL_PACKED_ARRAY_CAPACITY)
    /\ purifying \in BOOLEAN
    /\ pending = NoWrite
    /\ opsDone = 0
    /\ insertedAt = <<>>
    /\ written = <<>>
    /\ signalled = FALSE
    /\ retries = 0
    /\ grown = <<>>
    /\ called = <<>>
    /\ leaves = <<>>
    /\ HistogramUnused
    /\ pc = "idle"
    /\ buffer = NewByteBuffer(0)
    /\ input = <<>>
    /\ output = NoOutput
    /\ size0 = 0
    /\ calls = <<>>
    /\ before = buffer

\* the owner's step after getPackedIndex(w.set, w.i, true) ended as r
Insertion(w, r) ==
    LET key == <<w.set, w.i>>
    IN  /\ IF r.status = "ok"
           THEN /\ arrayContext' = setAtByteIndex(r.ctx, r.value, w.byte)
                /\ insertedAt' = IF key \in DOMAIN insertedAt THEN insertedAt
                                 ELSE (key :> r.value) @@ insertedAt
                /\ written' = (key :> w.byte) @@ written
                /\ leaves' = IF \E k \in DOMAIN insertedAt :
                                    k[1] = w.set /\ k[2] \div 8 = w.i \div 8
                             THEN leaves
                             ELSE (<<w.set, w.i \div 8>> :> (r.value - (w.i % 8)))
                                  @@ leaves
                /\ pending' = NoWrite
                /\ retries' = 0
                /\ pc' = "idle"
                /\ UNCHANGED signalled
           ELSE /\ arrayContext' = r.ctx
                /\ pending' = [set |-> w.set, i |-> w.i, byte |-> w.byte,
                               newSize |-> r.value]
                /\ pc' = IF r.status = "resize" THEN "resize" ELSE "fatal"
                /\ signalled' = (signalled \/ r.status = "resize")
                /\ UNCHANGED <<insertedAt, written, retries, leaves>>
        /\ UNCHANGED <<purifying, grown, called, buffer, varintVars, bufferVars, histogramVars>>

Set ==
    /\ pc = "idle"
    /\ opsDone < MaxOps
    /\ opsDone' = opsDone + 1
    /\ \E w \in Writes :
          Insertion(w, getPackedIndex(arrayContext, w.set, w.i, TRUE))

\* the owner catches the signal: copy to the signalled length
OwnerResize ==
    /\ pc = "resize"
    /\ retries < MaxRetries
    /\ LET copy == copyAndIncreaseSize(arrayContext, pending.newSize, purifying)
       IN  IF copy.status = "ok"
           THEN /\ arrayContext' = copy.ctx
                /\ retries' = retries + 1
                /\ leaves' = <<>>
                /\ pc' = "retry"
           ELSE /\ pc' = "escaped"
                /\ UNCHANGED <<arrayContext, retries, leaves>>
    /\ UNCHANGED <<purifying, pending, opsDone, insertedAt, written, signalled,
                   grown, called, buffer, varintVars, bufferVars, histogramVars>>

\* ... and makes the call again on the copy
Retry ==
    /\ pc = "retry"
    /\ Insertion(pending, getPackedIndex(arrayContext, pending.set, pending.i, TRUE))
    /\ UNCHANGED opsDone

\* c.copyAndIncreaseSize(b), and c.copyAndIncreaseSize(a).copyAndIncreaseSize(b)
\* (each copy is made once: it is drawn from the set that holds it alone)
Grow ==
    /\ pc = "idle"
    /\ \E ga \in Growths, gb \in Growths :
       \E a \in {arrayContext.physicalLength + ga} :
       \E b \in {a + gb} :
       \E once \in {copyAndIncreaseSize(arrayContext, b, purifying)} :
       \E first \in {copyAndIncreaseSize(arrayContext, a, purifying)} :
       \E twice \in {IF first.status = "ok"
                     THEN copyAndIncreaseSize(first.ctx, b, purifying)
                     ELSE first} :
          grown' = [a |-> a, b |-> b, once |-> once, first |-> first,
                    twice |-> twice]
    /\ pc' = "grown"
    /\ UNCHANGED <<arrayContext, purifying, pending, opsDone, insertedAt, written,
                   signalled, retries, called, leaves, buffer, varintVars,
                   bufferVars, histogramVars>>

NextPacked == Set \/ OwnerResize \/ Retry \/ Grow

SpecPacked == InitPacked /\ [][NextPacked]_vars

(***************************************************************************)
(* Claims about the packed array.                                          *)
(***************************************************************************)
\* getPackedIndex(set, i, false) on c
Lookup(c, set, i) == getPackedIndex(c, set, i, FALSE)

\* c and d answer the same at every set and probed index: absent in both, or
\* present in both with the same byte
SameContent(c, d) ==
    \A set \in 0..(NUMBER_OF_SETS - 1), i \in ProbeIndices :
        LET rc == Lookup(c, set, i)
            rd == Lookup(d, set, i)
        IN  /\ rc.status = "ok"
            /\ rd.status = "ok"
            /\ (rc.value = -1) <=> (rd.value = -1)
            /\ rc.value # -1 =>
                 getAtByteIndex(c, rc.value) = getAtByteIndex(d, rd.value)

\* C2: while no resize signal has been raised, every (set, i) that was
\* inserted is still found at the byte index returned at its insertion, and
\* the byte there is the last one written for it.
C2_ReadYourWrites ==
    (pc = "idle" /\ ~signalled) =>
        \A key \in DOMAIN insertedAt :
            LET r == Lookup(arrayContext, key[1], key[2])
            IN  /\ r.status = "ok"
                /\ r.value = insertedAt[key]
                /\ getAtByteIndex(arrayContext, insertedAt[key]) = written[key]

\* C3: a copy that found room has the virtual length of the original and
\* answers every lookup as the original does.
C3_CopyPreserves ==
    (pc = "grown" /\ grown.once.status = "ok") =>
        /\ grown.once.ctx.virtualLength = arrayContext.virtualLength
        /\ SameContent(arrayContext, grown.once.ctx)

C5_IdempotentGrowth ==
    (pc = "grown" /\ grown.first.status = "ok" /\ grown.once.status = "ok") =>
        /\ grown.twice.status = "ok"
        /\ SameContent(grown.twice.ctx, grown.once.ctx)
        /\ grown.twice.ctx = grown.once.ctx

C5_Witness ==
    /\ pc = "grown"
    /\ grown.a < grown.b
    /\ grown.first.status = "ok"
    /\ grown.once.status = "ok"
    /\ grown.twice.status = "ok"
    /\ \E i \in ProbeIndices :
          LET r == Lookup(grown.twice.ctx, 0, i)
          IN  /\ r.value # -1
              /\ getAtByteIndex(grown.twice.ctx, r.value) = 241

(***************************************************************************)
(* The filling driver: a context constructed with room for more than 2^16  *)
(* shorts, a caller that inserts the first index of leaf after leaf of set *)
(* tree 0 until the populated part nears 2^16 shorts, and single           *)
(* insertions from there on.                                               *)
(***************************************************************************)
\* the physical length asked of the constructor, in longs (66000 shorts)
FillingPhysicalLength == 16500
FillingVirtualLength == 65536

\* the calls of the caller's loop, getPackedIndex(0, 8 * k, true) for
\* k = 0 .. PopulatingCalls - 1, and the most single calls after it
PopulatingCalls == 3903
MaxFillingCalls == 3

\* the loop's calls first..last made on the context of r, up to the first
\* that raises
RECURSIVE Filled(_, _, _)
Filled(r, first, last) ==
    IF r.status # "ok" THEN r
    ELSE IF first = last THEN getPackedIndex(r.ctx, 0, 8 * first, TRUE)
    ELSE LET middle == (first + last) \div 2
         IN  Filled(Filled(r, first, middle), middle + 1, last)

\* the indices inserted one by one: the first of the next leaves, and
\* indices the loop has inserted already
NextIndices == {8 * k : k \in PopulatingCalls..(PopulatingCalls + 7)}
InsertedIndices == {8 * k : k \in 0..15}
FillingIndices == NextIndices \cup InsertedIndices

InitFilling ==
    /\ arrayContext = NewPackedArrayContext(FillingVirtualLength, FillingPhysicalLength)
    /\ pc = "constructed"
    /\ pending = NoWrite
    /\ purifying = FALSE
    /\ opsDone = 0
    /\ insertedAt = <<>>
    /\ written = <<>>
    /\ signalled = FALSE
    /\ retries = 0
    /\ grown = <<>>
    /\ called = <<>>
    /\ leaves = <<>>
    /\ HistogramUnused
    /\ buffer = NewByteBuffer(0)
    /\ input = <<>>
    /\ output = NoOutput
    /\ size0 = 0
    /\ calls = <<>>
    /\ before = buffer

\* the context after getPackedIndex ended as r
CallEnded(r) ==
    /\ arrayContext' = r.ctx
    /\ pc' = CASE r.status = "ok" -> "idle"
              [] r.status = "resize" -> "resize"
              [] OTHER -> "fatal"
    /\ signalled' = (signalled \/ r.status = "resize")

Populate ==
    /\ pc = "constructed"
    /\ \E r \in {Filled(Ok(arrayContext, 0), 0, PopulatingCalls - 1)} : CallEnded(r)
    /\ UNCHANGED <<purifying, pending, opsDone, insertedAt, written, retries,
                   grown, called, leaves, buffer, varintVars, bufferVars,
                   histogramVars>>

\* the leaves of set tree 0 the caller's loop has inserted
LoopLeaves ==
    IF arrayContext.physicalLength = FillingPhysicalLength /\ pc # "constructed"
    THEN 0..(PopulatingCalls - 1)
    ELSE {}

\* one call getPackedIndex(0, i, true); insertedAt and leaves are kept as the
\* packed driver keeps them
InsertAt(i) ==
    /\ pc = "idle"
    /\ opsDone < MaxFillingCalls
    /\ opsDone' = opsDone + 1
    /\ \E r \in {getPackedIndex(arrayContext, 0, i, TRUE)} :
          /\ CallEnded(r)
          /\ pending' = [set |-> 0, i |-> i, byte |-> 0, newSize |-> r.value]
          /\ insertedAt' = IF r.status # "ok" \/ <<0, i>> \in DOMAIN insertedAt
                           THEN insertedAt
                           ELSE (<<0, i>> :> r.value) @@ insertedAt
          /\ leaves' = IF \/ r.status # "ok"
                          \/ i \div 8 \in LoopLeaves
                          \/ \E k \in DOMAIN insertedAt : k[2] \div 8 = i \div 8
                       THEN leaves
                       ELSE (<<0, i \div 8>> :> (r.value - (i % 8))) @@ leaves
    /\ UNCHANGED <<purifying, written, retries, grown, called, buffer, varintVars,
                   bufferVars, histogramVars>>

\* an insertion into a leaf the loop has not reached
Insert == \E i \in NextIndices : InsertAt(i)

\* an insertion of an index the loop has inserted
InsertAgain == \E i \in InsertedIndices : InsertAt(i)

NextFilling == Populate \/ Insert \/ InsertAgain

SpecFilling == InitFilling /\ [][NextFilling]_vars

\* some index of i's leaf (the same i \div 8) was inserted in set tree `set`,
\* by the caller's loop or by a single insertion
LeafInserted(set, i) == (set = 0 /\ i \div 8 \in LoopLeaves) \/ \E k \in DOMAIN insertedAt : k[1] = set /\ k[2] \div 8 = i \div 8

\* the indices looked up in every state: those around the written ones, and
\* the first of the leaves around the end of the caller's loop
LookupIndices ==
    {i \in ProbeIndices \cup FillingIndices : i < arrayContext.virtualLength}

\* the indices looked up on a fresh context: all below the virtual length,
\* one of every 64 when there are more than 4096
FreshIndices ==
    LET virtualLength == arrayContext.virtualLength
    IN  IF virtualLength <= 4096 THEN 0..(virtualLength - 1)
        ELSE {64 * k : k \in 0..((virtualLength - 1) \div 64)}

\* C12: a lookup with insertAsNeeded = false answers -1 for every index none
\* of whose leaf mates was ever inserted in that set tree, on a fresh context
\* for every set and every index below the virtual length, and it leaves the
\* context as it found it.
C12_NonInsertingLookup ==
    /\ \A set \in 0..(NUMBER_OF_SETS - 1), i \in LookupIndices :
          LET r == getPackedIndex(arrayContext, set, i, FALSE)
          IN  /\ r.ctx = arrayContext
              /\ (pc # "fatal" /\ ~LeafInserted(set, i))
                    => r.status = "ok" /\ r.value = -1
    /\ (opsDone = 0 /\ pc \in {"idle", "constructed"} /\ LoopLeaves = {}) =>
          \A set \in 0..(NUMBER_OF_SETS - 1), i \in FreshIndices :
             LET r == getPackedIndex(arrayContext, set, i, FALSE)
             IN  r.status = "ok" /\ r.value = -1 /\ r.ctx = arrayContext

\* entry lengths in longs asked of expandArrayIfNeeded: those of a leaf, of
\* the entries of 2 to 18 shorts, and one above the fixed increment
AllocationLongs == {1, 2, 5, 17}

\* a context as full as many insertions leave it, 310 of its 320 longs
\* populated; expandArrayIfNeeded reads the two lengths only
LargeContext == [NewPackedArrayContext(4096, 320) EXCEPT !.populatedShortLength = 4 * 310]

\* expandArrayIfNeeded(e) on c raises exactly for want of room, and signals
\* the length the claim states
SignalsGrowth(c, e) ==
    LET r == expandArrayIfNeeded(c, e)
        room == c.physicalLength >= getPopulatedLongLength(c) + e
        increment == Max(Max(e, 16), getPopulatedLongLength(c) \div 16)
    IN  /\ r.status = (IF room THEN "ok" ELSE "resize")
        /\ r.ctx = c
        /\ ~room => r.value = c.physicalLength + increment /\ r.value > c.physicalLength

\* a step of the context's own (not the owner's copy on a signal) keeps the
\* physical length and the backing array's length
KeepsBackingStore ==
    pc # "resize" =>
       /\ arrayContext'.physicalLength = arrayContext.physicalLength
       /\ Len(arrayContext'.shortArray) = Len(arrayContext.shortArray)

\* C13: an allocation of e longs raises a resize signal exactly when
\* physicalLength < populatedLongLength + e; the signal carries
\* physicalLength + max(e, 16, populatedLongLength >> 4), more than the
\* physical length; the context never changes its own physical length or
\* backing store.
C13_GrowthSignal ==
    /\ [](/\ \A e \in AllocationLongs :
               SignalsGrowth(arrayContext, e) /\ SignalsGrowth(LargeContext, e)
          /\ \A n \in 2..18 :
               LET r == newEntry(arrayContext, n)
               IN  r.status = "resize" <=>
                     arrayContext.physicalLength
                       < getPopulatedLongLength(arrayContext) + (n \div 4) + 1
          /\ newLeafEntry(arrayContext).status = "resize" <=>
                arrayContext.physicalLength < getPopulatedLongLength(arrayContext) + 1
          /\ Len(arrayContext.shortArray) = 4 * arrayContext.physicalLength
          /\ pc = "resize" =>
                \E e \in 1..5 :
                   /\ arrayContext.physicalLength
                        < getPopulatedLongLength(arrayContext) + e
                   /\ pending.newSize = arrayContext.physicalLength
                        + Max(Max(e, 16), getPopulatedLongLength(arrayContext) \div 16)
                   /\ pending.newSize > arrayContext.physicalLength)
    /\ [][KeepsBackingStore]_vars

\* an insertion raised the signal: the context is at its old physical
\* length, and the owner is told a greater one
C13_Witness ==
    /\ pc = "resize"
    /\ pending.newSize = arrayContext.physicalLength + PACKED_ARRAY_GROWTH_INCREMENT
    /\ arrayContext.physicalLength
         < getPopulatedLongLength(arrayContext) + 5

\* C14: the 8 bytes of a leaf created for an index none of whose leaf mates
\* was inserted before read 0 through getAtByteIndex until they are written,
\* whatever was allocated or poisoned before or is allocated after.
C14_ZeroInitialisedLeaves ==
    \A leaf \in DOMAIN leaves :
       \A j \in 0..7 :
          <<leaf[1], 8 * leaf[2] + j>> \notin DOMAIN written
             => getAtByteIndex(arrayContext, leaves[leaf] + j) = 0

(***************************************************************************)
(* The Histogram of the test "should record a value": its code is not     *)
(* among the sources; it is modelled from the specification's value to     *)
(* index mapping (buckets of sub-buckets, each bucket twice as coarse as   *)
(* the one before), with the counts kept as a function of the indices      *)
(* that hold a count.                                                      *)
(***************************************************************************)
\* floor(log2(n)) for n >= 1
RECURSIVE FloorLog2(_)
FloorLog2(n) == IF n <= 1 THEN 0 ELSE 1 + FloorLog2(n \div 2)

\* new Histogram(1, Number.MAX_SAFE_INTEGER, 3): the sub-bucket count is the
\* power of two that holds 2 * 10^digits values at unit resolution
NewHistogram(lowestTrackableValue, numberOfSignificantValueDigits) ==
    LET largestValueWithSingleUnitResolution ==
            2 * (10 ^ numberOfSignificantValueDigits)
        subBucketCountMagnitude == CeilLog2(largestValueWithSingleUnitResolution)
    IN  [unitMagnitude |-> FloorLog2(lowestTrackableValue),
         subBucketHalfCountMagnitude |-> subBucketCountMagnitude - 1,
         subBucketCount |-> 2 ^ subBucketCountMagnitude,
         subBucketHalfCount |-> 2 ^ (subBucketCountMagnitude - 1),
         counts |-> <<>>,
         totalCount |-> 0,
         recorded |-> <<>>]

\* the bucket index as the specification's sentence reads word for word:
\* floor(log2(value / subBucketCount)), less the unit magnitude
getBucketIndexOfWholeBuckets(h, value) ==
    IF value < h.subBucketCount * (2 ^ h.unitMagnitude) THEN 0
    ELSE FloorLog2(value \div h.subBucketCount) - h.unitMagnitude

\* the bucket of a value: the magnitude of the value above that of the
\* upper half of the sub-buckets; 0 for every value the first bucket holds
getBucketIndex(h, value) ==
    IF value < h.subBucketCount * (2 ^ h.unitMagnitude) THEN 0
    ELSE FloorLog2(value \div h.subBucketHalfCount) - h.unitMagnitude

\* the value shifted right by the bucket's shift
getSubBucketIndex(h, value, bucketIndex) ==
    value \div (2 ^ (bucketIndex + h.unitMagnitude))

\* buckets after the first hold their upper half of sub-buckets only
countsArrayIndex(h, value) ==
    LET bucketIndex == getBucketIndex(h, value)
        subBucketIndex == getSubBucketIndex(h, value, bucketIndex)
    IN  (bucketIndex + 1) * h.subBucketHalfCount
          + (subBucketIndex - h.subBucketHalfCount)

\* Number(histogram.counts[index])
CountAt(h, index) == IF index \in DOMAIN h.counts THEN h.counts[index] ELSE 0

recordValue(h, value) ==
    LET index == countsArrayIndex(h, value)
    IN  [h EXCEPT !.counts = (index :> (CountAt(h, index) + 1)) @@ h.counts,
                  !.totalCount = h.totalCount + 1,
                  !.recorded = Append(h.recorded, value)]

\* the most values recorded in one histogram
MaxRecords == 3

\* values recorded: 0, those of the tests, the ends of the first bucket, two
\* values of one sub-bucket, and the ends of a later bucket
RecordValues == {0, 42, 127, 2047, 2048, 2049, 122777, 123456, 123519, 123520, 131071, 131072}

InitHistogram ==
    /\ histogram = NewHistogram(1, 3)
    /\ pc = "recording"
    /\ buffer = NewByteBuffer(0)
    /\ input = <<>>
    /\ output = NoOutput
    /\ size0 = 0
    /\ calls = <<>>
    /\ before = buffer
    /\ PackedUnused

RecordValue ==
    /\ pc = "recording"
    /\ Len(histogram.recorded) < MaxRecords
    /\ \E value \in RecordValues : histogram' = recordValue(histogram, value)
    /\ UNCHANGED <<pc, buffer, varintVars, bufferVars, packedVars>>

NextHistogram == RecordValue

SpecHistogram == InitHistogram /\ [][NextHistogram]_vars

\* the lowest value counted at an index: the sub-bucket, scaled by its bucket
ValueFromIndex(h, index) ==
    LET bucketIndex == (index \div h.subBucketHalfCount) - 1
        subBucketIndex == (index % h.subBucketHalfCount) + h.subBucketHalfCount
    IN  IF bucketIndex < 0 THEN (subBucketIndex - h.subBucketHalfCount) * (2 ^ h.unitMagnitude)
        ELSE subBucketIndex * (2 ^ (bucketIndex + h.unitMagnitude))

\* the indices a run of the driver can count at
TouchedIndices == {countsArrayIndex(NewHistogram(1, 3), v) : v \in RecordValues} \cup {0, 1, 8072, 8073, 8074}

\* a recording adds 1 at the index whose range of values holds the value
\* recorded, and leaves the count at every other index as it was
RecordsOneIndex ==
    histogram'.recorded # histogram.recorded =>
       LET value == histogram'.recorded[Len(histogram'.recorded)]
       IN  \E index \in DOMAIN histogram'.counts :
              /\ ValueFromIndex(histogram, index) <= value
              /\ value < ValueFromIndex(histogram, index + 1)
              /\ histogram'.counts[index] = CountAt(histogram, index) + 1
              /\ \A other \in (TouchedIndices \cup DOMAIN histogram.counts
                                 \cup DOMAIN histogram'.counts) \ {index} :
                    CountAt(histogram', other) = CountAt(histogram, other)

RootOf(c, set) == getIndexAtShortIndex(c, SET_0_START_INDEX + set)

\* the child pointer in slot number `slot` of an entry
SlotOf(c, entryIndex, slot) == getIndexAtEntrySlot(c, entryIndex, slot)

\* the bits of a bitmap, lowest first
BitsOf(bitmap) == {b \in 0..15 : (bitmap \div (2 ^ b)) % 2 = 1}

\* a write that went through without a resize replaced the entry `old` the
\* root pointer of `set` named by an entry `new` with one more slot
ExpandedRoot(set, old, new) ==
    /\ pc = "idle" /\ pc' = "idle" /\ opsDone' = opsDone + 1
    /\ old = RootOf(arrayContext, set)
    /\ new = RootOf(arrayContext', set)
    /\ old # 0 /\ new # old
    /\ getPackedSlotIndicators(arrayContext, old) # 0

\* the expanded entry holds the old entry's bitmap and one more bit, the old
\* child pointers in bitmap order, and the new child's pointer in between
KeepsLiveData(set, old, new) ==
    LET before_ == getPackedSlotIndicators(arrayContext, old)
        after == getPackedSlotIndicators(arrayContext', new)
    IN  /\ BitsOf(before_) \subseteq BitsOf(after)
        /\ Cardinality(BitsOf(after) \ BitsOf(before_)) = 1
        /\ LET inserted == CHOOSE b \in BitsOf(after) \ BitsOf(before_) : TRUE
                position == bitCount(before_ % (2 ^ inserted))
            IN  /\ \A b \in BitsOf(before_) :
                      SlotOf(arrayContext', new, bitCount(after % (2 ^ b)))
                        = SlotOf(arrayContext, old, bitCount(before_ % (2 ^ b)))
                /\ SlotOf(arrayContext', new, position)
                      >= getPopulatedShortLength(arrayContext)

\* C16: when an insertion expands an entry with k >= 1 bits set (here the
\* entry a root pointer names), the new entry has the old bitmap plus the
\* inserted bit, its k + 1 slots hold the k old child pointers in bitmap
\* order with the new child's pointer at its popcount position, and the
\* parent pointer names the new entry.
C16_ExpansionKeepsLiveData ==
    [][\A set \in 0..(NUMBER_OF_SETS - 1) :
          \A old \in {RootOf(arrayContext, set)}, new \in {RootOf(arrayContext', set)} :
             ExpandedRoot(set, old, new) => KeepsLiveData(set, old, new)]_vars

\* what newEntry's poison reads as in the short array
PoisonValue == 65535

\* the walk of getPackedIndex(set, virtualIndex, false) from entryIndex at
\* level indexShift down reads a bitmap or a child pointer that holds poison
RECURSIVE WalkReadsPoison(_, _, _, _)
WalkReadsPoison(c, virtualIndex, indexShift, entryIndex) ==
    IF indexShift < LEAF_LEVEL_SHIFT THEN FALSE
    ELSE LET bitmap == getAtShortIndex(c, entryIndex)
             slotBitNumber == (virtualIndex \div (2 ^ indexShift)) % 16
             slotNumber == bitCount(getPackedSlotIndicators(c, entryIndex)
                                      % (2 ^ slotBitNumber))
             next == getAtShortIndex(c,
                        Offset(entryIndex,
                               NON_LEAF_ENTRY_HEADER_SIZE_IN_SHORTS + slotNumber))
         IN  \/ bitmap = PoisonValue
             \/ /\ slotBitNumber \in BitsOf(getPackedSlotIndicators(c, entryIndex))
                /\ \/ next = PoisonValue
                   \/ WalkReadsPoison(c, virtualIndex, indexShift - 4, next)

LookupReadsPoison(c, set, virtualIndex) ==
    /\ RootOf(c, set) # 0
    /\ WalkReadsPoison(c, virtualIndex, c.topLevelShift, RootOf(c, set))

\* C17: no walk of a set tree reads a bitmap or a child-pointer slot that
\* still holds the poison newEntry wrote (here: the walks of the lookups
\* getPackedIndex(set, i, false), in every state the driver reaches).
C17_PoisonNeverRead ==
    \A set \in 0..(NUMBER_OF_SETS - 1), i \in ProbeIndices :
       ~LookupReadsPoison(arrayContext, set, i)

\* the non-leaf entries reachable from entryIndex at level indexShift: the
\* entry, and those its child pointers name; a slot left at the poison
\* names no entry
RECURSIVE EntriesFrom(_, _, _)
EntriesFrom(c, entryIndex, indexShift) ==
    {entryIndex} \cup
    (IF indexShift = LEAF_LEVEL_SHIFT THEN {}
     ELSE UNION { LET child == SlotOf(c, entryIndex, slot)
                  IN  IF child = PoisonValue THEN {}
                      ELSE EntriesFrom(c, child, indexShift - 4) :
                  slot \in 0..(Cardinality(BitsOf(getPackedSlotIndicators(c, entryIndex))) - 1) })

ReachableEntries(c) ==
    UNION { IF RootOf(c, set) = 0 THEN {}
            ELSE EntriesFrom(c, RootOf(c, set), c.topLevelShift) :
            set \in 0..(NUMBER_OF_SETS - 1) }

\* every reachable entry of c was allocated with 2 shorts and one short for
\* each bit of its bitmap, a number below 2^16
SizedByBitmap(c) ==
    \A entryIndex \in ReachableEntries(c) :
       /\ entryIndex \in DOMAIN c.allocated
       /\ getAtShortIndex(c, entryIndex) \in 0..65535
       /\ c.allocated[entryIndex]
            = 2 + Cardinality(BitsOf(getAtShortIndex(c, entryIndex)))

\* C18: in every reachable state of a packed context, every non-leaf entry
\* reachable from a root pointer was allocated with exactly 2 header shorts
\* plus one child-pointer slot for each bit of its bitmap, and the bitmap
\* fits in 16 bits.
C18_BitmapSizesEntry ==
    /\ SizedByBitmap(arrayContext)
    /\ pc = "grown" => SizedByBitmap(grown.once.ctx) /\ SizedByBitmap(grown.twice.ctx)

(***************************************************************************)
(* The construction driver: new PackedArrayContext(virtualLength, 16) for  *)
(* virtual lengths around every power of two up to 2^MaxMagnitude.         *)
(***************************************************************************)
MaxMagnitude == 20

ConstructedLengths ==
    {n \in {2 ^ k + d : k \in 0..MaxMagnitude, d \in -1..2} : n >= 1}

InitConstruction ==
    /\ pending \in [virtualLength : ConstructedLengths]
    /\ arrayContext = <<>>
    /\ pc = "constructing"
    /\ purifying = FALSE
    /\ opsDone = 0
    /\ insertedAt = <<>>
    /\ written = <<>>
    /\ signalled = FALSE
    /\ retries = 0
    /\ grown = <<>>
    /\ called = <<>>
    /\ leaves = <<>>
    /\ HistogramUnused
    /\ buffer = NewByteBuffer(0)
    /\ input = <<>>
    /\ output = NoOutput
    /\ size0 = 0
    /\ calls = <<>>
    /\ before = buffer

Construct ==
    /\ pc = "constructing"
    /\ arrayContext' = NewPackedArrayContext(pending.virtualLength,
                                             MINIMUM_INITIAL_PACKED_ARRAY_CAPACITY)
    /\ pc' = "constructed"
    /\ UNCHANGED <<purifying, pending, opsDone, insertedAt, written, signalled,
                   retries, grown, called, leaves, buffer, varintVars, bufferVars,
                   histogramVars>>

NextConstruction == Construct

SpecConstruction == InitConstruction /\ [][NextConstruction]_vars

\* the nibbles getPackedIndex follows for a virtual index, from the top
\* level down to the level above the leaves
RECURSIVE NibblePath(_, _)
NibblePath(virtualIndex, indexShift) ==
    IF indexShift < LEAF_LEVEL_SHIFT THEN <<>>
    ELSE <<(virtualIndex \div (2 ^ indexShift)) % 16>>
           \o NibblePath(virtualIndex, indexShift - 4)

\* virtual indices compared: the ends of the index space, the indices
\* around each power of two, and their leaf mates
PathIndices(virtualLength) ==
    {i \in {0, 7, 8, virtualLength - 1, virtualLength - 8, virtualLength \div 2}
            \cup {2 ^ k + d : k \in 3..MaxMagnitude, d \in {-1, 0}} :
        i >= 0 /\ i < virtualLength}

\* C20: for every virtualLength >= 1 the topLevelShift set by
\* setVirtualLength is at least 7, reaches the leaf level shift 3 in steps
\* of 4, is the smallest such shift with 2^(topLevelShift + 4) >=
\* virtualLength, and two virtual indices below virtualLength of different
\* leaves (i >> 3) never follow the same nibble path.
C20_TopLevelShiftCovers ==
    pc = "constructed" =>
       LET virtualLength == arrayContext.virtualLength
           topLevelShift == arrayContext.topLevelShift
       IN  /\ virtualLength = pending.virtualLength
           /\ topLevelShift >= 7
           /\ (topLevelShift - LEAF_LEVEL_SHIFT) % 4 = 0
           /\ 2 ^ (topLevelShift + 4) >= virtualLength
           /\ topLevelShift = 7 \/ 2 ^ topLevelShift < virtualLength
           /\ \A i, j \in PathIndices(virtualLength) :
                 i \div 8 # j \div 8
                    => NibblePath(i, topLevelShift) # NibblePath(j, topLevelShift)

\* a context was constructed for a virtual length just above 2^15, where
\* one more level is needed: topLevelShift 15
C20_Witness ==
    /\ pc = "constructed"
    /\ arrayContext.virtualLength = 2 ^ 15 + 1
    /\ arrayContext.topLevelShift = 15
    /\ NibblePath(2 ^ 15, 15) = <<1, 0, 0, 0>>

\* C19: for every sequence of getPackedIndex calls with virtualIndex <
\* virtualLength on a packed context neither internal error is raised: the
\* inserted slot index is in range of the expanded entry, and the child
\* pointer read after descending a level is never 0 ("Retry").
C19_FatalUnreachable == pc # "fatal"

\* the insertions of a step into leaves that held an index already left the
\* high-water mark where it was
SharedLeafAllocatesNothing ==
    \A key \in DOMAIN insertedAt' \ DOMAIN insertedAt :
       LeafInserted(key[1], key[2])
          => arrayContext'.populatedShortLength = arrayContext.populatedShortLength

\* C21: a lookup of an inserted (set, i) returns 8 * L + (i mod 8), L the long
\* index of the leaf created for (set, i >> 3); inserted indices of different
\* sets or of different i >> 3 never get the same leaf; and an insertion into
\* a leaf that holds an index already allocates no storage.
C21_LeafAddressing ==
    /\ [](\A key \in DOMAIN insertedAt :
            LET r == Lookup(arrayContext, key[1], key[2])
                leaf == <<key[1], key[2] \div 8>>
            IN  (r.status = "ok" /\ r.value # -1) =>
                   /\ r.value % 8 = key[2] % 8
                   /\ leaf \in DOMAIN leaves => r.value = leaves[leaf] + (key[2] % 8)
                   /\ \A other \in DOMAIN insertedAt :
                         LET o == Lookup(arrayContext, other[1], other[2])
                         IN  (o.status = "ok" /\ o.value # -1
                                /\ <<other[1], other[2] \div 8>> # leaf)
                                => o.value \div 8 # r.value \div 8)
    /\ [][SharedLeafAllocatesNothing]_vars

(***************************************************************************)
(* The calls driver: a caller of getPackedIndex on one context, with       *)
(* indices below and at or above the virtual length and with both values   *)
(* of insertAsNeeded.  An Error thrown leaves the caller with the context  *)
(* as the call left it; on a resize signal the owner copies the context to *)
(* the signalled length.                                                   *)
(***************************************************************************)
MaxCallsMade == 5

CallSets == {0, 1}
CallIndices == {6, 14, 134, 256, 4096, 5000}

InitCalls ==
    /\ \E virtualLength \in VirtualLengths :
          arrayContext = NewPackedArrayContext(virtualLength,
                                      MINIMUM_INITIAL_PACKED_ARRAY_CAPACITY)
    /\ purifying = FALSE
    /\ pending = NoWrite
    /\ opsDone = 0
    /\ insertedAt = <<>>
    /\ written = <<>>
    /\ signalled = FALSE
    /\ retries = 0
    /\ grown = <<>>
    /\ called = <<>>
    /\ leaves = <<>>
    /\ HistogramUnused
    /\ pc = "idle"
    /\ buffer = NewByteBuffer(0)
    /\ input = <<>>
    /\ output = NoOutput
    /\ size0 = 0
    /\ calls = <<>>
    /\ before = buffer

\* getPackedIndex(set, i, insertAsNeeded)
Call ==
    /\ pc = "idle"
    /\ opsDone < MaxCallsMade
    /\ opsDone' = opsDone + 1
    /\ \E set \in CallSets, i \in CallIndices, insertAsNeeded \in BOOLEAN :
       \E r \in {getPackedIndex(arrayContext, set, i, insertAsNeeded)} :
          /\ arrayContext' = r.ctx
          /\ called' = [set |-> set, i |-> i, insertAsNeeded |-> insertAsNeeded,
                        status |-> r.status, value |-> r.value,
                        before |-> arrayContext]
          /\ pc' = IF r.status = "resize" THEN "resize" ELSE "idle"
          /\ signalled' = (signalled \/ r.status = "resize")
    /\ UNCHANGED <<purifying, pending, insertedAt, written, retries, grown, leaves,
                   buffer, varintVars, bufferVars, histogramVars>>

\* the owner catches the signal: copy to the signalled length
Resized ==
    /\ pc = "resize"
    /\ \E copy \in {copyAndIncreaseSize(arrayContext, called.value, purifying)} :
          IF copy.status = "ok"
          THEN arrayContext' = copy.ctx /\ pc' = "idle"
          ELSE pc' = "escaped" /\ UNCHANGED arrayContext
    /\ UNCHANGED <<purifying, pending, opsDone, insertedAt, written, signalled,
                   retries, grown, called, leaves, buffer, varintVars, bufferVars,
                   histogramVars>>

NextCalls == Call \/ Resized

SpecCalls == InitCalls /\ [][NextCalls]_vars

\* virtual indices at and above the virtual length of c
IndicesBeyond(c) ==
    {c.virtualLength, c.virtualLength + 1, 2 * c.virtualLength, 2 ^ 20}

\* C22: getPackedIndex(set, i, insertAsNeeded) with i >= virtualLength raises
\* an error for both values of insertAsNeeded, and the context is as it was
\* before the call.
C22_OutOfRangeRejected ==
    /\ \A set \in 0..(NUMBER_OF_SETS - 1), i \in IndicesBeyond(arrayContext),
          insertAsNeeded \in BOOLEAN :
          LET r == getPackedIndex(arrayContext, set, i, insertAsNeeded)
          IN  r.status = "error" /\ r.ctx = arrayContext
    /\ (called # <<>> /\ called.i >= called.before.virtualLength) =>
          (called.status = "error" /\ arrayContext = called.before)

\* an inserting call beyond the virtual length was made on a context that
\* holds entries of the set tree asked for, and it was rejected
C22_Witness ==
    /\ called # <<>>
    /\ called.i >= called.before.virtualLength
    /\ called.insertAsNeeded
    /\ called.status = "error"
    /\ RootOf(called.before, called.set) # 0
    /\ arrayContext = called.before

\* the call that raised the resize signal, in the state it left
RaisedResize == called # <<>> /\ called.status = "resize" /\ pc = "resize"

\* C23 as stated: when getPackedIndex(set, i, true) ends by raising the
\* resize signal, populatedShortLength, the root pointers and the entries are
\* as before the call, and every lookup answers as before.
C23_NoPartialUpdate ==
    RaisedResize =>
       /\ arrayContext.populatedShortLength = called.before.populatedShortLength
       /\ arrayContext.shortArray = called.before.shortArray
       /\ \A set \in 0..(NUMBER_OF_SETS - 1), i \in ProbeIndices :
             Lookup(arrayContext, set, i).value = Lookup(called.before, set, i).value

\* new is old after a call that allocated and repointed: the lengths and the
\* shift are kept, the high-water mark did not go down nor beyond the backing
\* store, and a short below the old high-water mark that changed holds the
\* index of an entry the call allocated (as the 16-bit slot keeps it)
PartiallyUpdated(old, new) ==
    /\ new.physicalLength = old.physicalLength
    /\ new.virtualLength = old.virtualLength
    /\ new.topLevelShift = old.topLevelShift
    /\ new.populatedShortLength >= old.populatedShortLength
    /\ new.populatedShortLength <= 4 * new.physicalLength
    /\ \A s \in 0..(old.populatedShortLength - 1) :
          new.shortArray[s + 1] # old.shortArray[s + 1] =>
             \E e \in DOMAIN new.allocated \ DOMAIN old.allocated :
                new.shortArray[s + 1] = e % 65536

\* C23, amended: only a call with insertAsNeeded = true raises the resize
\* signal, and it may leave a partial update: storage allocated above the old
\* high-water mark, and root-pointer or child-pointer slots repointed to
\* entries it allocated; nothing else changes.
C23_ResizeLeavesPartialUpdate ==
    RaisedResize =>
       /\ called.insertAsNeeded
       /\ called.i < called.before.virtualLength
       /\ called.value > called.before.physicalLength
       /\ PartiallyUpdated(called.before, arrayContext)

\* a call raised the resize signal after it had allocated storage and
\* repointed a slot below the old high-water mark
C23_Witness ==
    /\ RaisedResize
    /\ arrayContext.populatedShortLength > called.before.populatedShortLength
    /\ \E s \in 0..(called.before.populatedShortLength - 1) :
          arrayContext.shortArray[s + 1] # called.before.shortArray[s + 1]

\* what was allocated in c, <<first short, number of shorts>>: the entries and
\* the leaves
Blocks(c) ==
    {<<e, c.allocated[e]>> : e \in DOMAIN c.allocated}
       \cup {<<4 * leaf, 4>> : leaf \in c.leafAllocated}

\* the high-water mark of c is inside the backing store, and what was
\* allocated lies between the root pointers and the high-water mark, no two
\* blocks sharing a short
AllocatedInside(c) ==
    /\ SET_0_START_INDEX + NUMBER_OF_SETS <= c.populatedShortLength
    /\ c.populatedShortLength <= 4 * c.physicalLength
    /\ Len(c.shortArray) = 4 * c.physicalLength
    /\ \A a \in Blocks(c) :
          /\ a[1] >= SET_0_START_INDEX + NUMBER_OF_SETS
          /\ a[1] + a[2] <= c.populatedShortLength
          /\ \A b \in Blocks(c) :
                a = b \/ a[1] + a[2] <= b[1] \/ b[1] + b[2] <= a[1]

\* a step made on one context (its physical length stays) does not lower the
\* high-water mark, and allocates at or above it
AllocatesAbove ==
    arrayContext'.physicalLength = arrayContext.physicalLength =>
       /\ arrayContext'.populatedShortLength >= arrayContext.populatedShortLength
       /\ \A a \in Blocks(arrayContext') \ Blocks(arrayContext) :
             a[1] >= arrayContext.populatedShortLength

\* C24: in every reachable state 8 <= populatedShortLength <= 4 *
\* physicalLength; populatedShortLength never decreases; and every newly
\* allocated entry or leaf lies at or above the previous high-water mark, so
\* it overlaps neither the 8 root pointers nor an earlier entry or leaf.
C24_AllocationInside ==
    /\ [](/\ AllocatedInside(arrayContext)
          /\ pc = "grown" =>
                /\ AllocatedInside(grown.once.ctx)
                /\ AllocatedInside(grown.twice.ctx))
    /\ [][AllocatesAbove]_vars

\* entries and leaves were allocated up to the last long of the backing
\* store, the last block not ending on a long
C24_Witness ==
    /\ pc = "resize"
    /\ Cardinality(arrayContext.leafAllocated) >= 2
    /\ Cardinality(DOMAIN arrayContext.allocated) >= 4
    /\ arrayContext.populatedShortLength % 4 # 0
    /\ getPopulatedLongLength(arrayContext) = arrayContext.physicalLength

\* C25: every entry short-index and every leaf long-index the context
\* allocated, each of which is then written into a root or child pointer
\* slot, fits in the 16 bits of the slot: the slot reads back the same index.
C25_PointersFit ==
    /\ \A e \in DOMAIN arrayContext.allocated : e % 65536 = e
    /\ \A leaf \in arrayContext.leafAllocated : leaf % 65536 = leaf

================================================================================
